---- MODULE Spec2Model ----
(***************************************************************************)
(* Model of src/backend/api/ethereum.ts: the process-wide cache            *)
(* cachedData, the refresh cycle fetchLatestBlockData (an async function   *)
(* that yields to the event loop at each awaited RPC call), its three      *)
(* triggers (startup call, 15 s setInterval, snapshot route) and the three *)
(* HTTP routes.  One action is one run-to-completion segment of the        *)
(* JavaScript event loop: the code between two awaits is atomic, cycles    *)
(* interleave only at awaits.                                              *)
(***************************************************************************)
EXTENDS Integers, Sequences, FiniteSets, Bags, TLC

VARIABLES
    cachedData,   \* the module-level cache object (ethereum.ts:52-68)
    cycles,       \* bag of the runs of fetchLatestBlockData in flight: locals + awaited call
    now,          \* Date.now()
    nextTimer,    \* expiry of the setInterval timer
    head,         \* upstream chain: height of the latest block of the RPC node
    response,     \* the HTTP response sent by the last step, if any (c.json(...))
    lastDone,     \* how the cycle that returned in the last step, if any, ended
    lastCommit,   \* history variable: the values computed by the last committing cycle
    started,      \* history variable: number of calls of fetchLatestBlockData so far
    reliable      \* upstream: the RPC node answers every call properly from now on

vars == <<cachedData, cycles, now, nextTimer, head, response, lastDone, lastCommit, started,
          reliable>>

----------------------------------------------------------------------------
(* Bounds of the model *)

MaxHead == 2            \* chain heights 1..MaxHead are observed
MaxCycles == 2          \* calls of fetchLatestBlockData in one run of the process
StartTime == 45000      \* Date.now() when the module is loaded: the cache, never
                        \* filled (lastUpdate 0), is older than 30 s at the start

(* Program constants *)

PollIntervalMs == 15000
MaxAgeMs == 30000
BlockHistoryCap == 20
GasHistoryCap == 50
TxSampleLimit == 15
HexBase == 16
EtherDigits == 18     \* 1e18 wei per ether
EtherDecimals == 6
GweiDigits == 9       \* 1e9 wei per gwei
GweiDecimals == 2

----------------------------------------------------------------------------
(* JavaScript values.  RPC results and nullable fields are tagged records  *)
(* so that null, undefined and a value can be compared.                    *)

Undefined == [kind |-> "undefined"]
Null == [kind |-> "null"]
Throw == [kind |-> "throw"]
Val(v) == [kind |-> "value", value |-> v]
Falsy(x) == x.kind \in {"undefined", "null"}

NaN == -1   \* the result of parseInt on something that is no hex string

(* A hex quantity "0x..." is the sequence of its hex digits, most          *)
(* significant first.                                                      *)
RECURSIVE HexDigits(_)
HexDigits(n) ==
    IF n < HexBase THEN <<n>> ELSE Append(HexDigits(n \div HexBase), n % HexBase)

ToHex(n) == Val(HexDigits(n))

RECURSIVE ParseDigits(_, _)
ParseDigits(ds, acc) ==
    IF ds = <<>> THEN acc ELSE ParseDigits(Tail(ds), acc * HexBase + Head(ds))

\* parseInt(hex, 16)
hexToDecimal(hex) ==
    IF hex.kind = "value" THEN ParseDigits(hex.value, 0) ELSE NaN

(* BigInt values are sequences of decimal digits, least significant first  *)
(* (wei amounts do not fit a machine integer).                             *)
RECURSIVE BigMulAdd(_, _, _)
BigMulAdd(ds, m, carry) ==
    IF ds = <<>>
    THEN IF carry = 0 THEN <<>> ELSE <<carry % 10>> \o BigMulAdd(<<>>, m, carry \div 10)
    ELSE LET v == Head(ds) * m + carry
         IN  <<v % 10>> \o BigMulAdd(Tail(ds), m, v \div 10)

RECURSIVE BigFromHex(_, _)
BigFromHex(ds, acc) ==
    IF ds = <<>> THEN acc ELSE BigFromHex(Tail(ds), BigMulAdd(acc, HexBase, Head(ds)))

\* the decimal digits of a machine integer, least significant first
RECURSIVE IntDigits(_)
IntDigits(n) == IF n < 10 THEN <<n>> ELSE <<n % 10>> \o IntDigits(n \div 10)

\* a quantity below 2^31 is converted with machine arithmetic
FitsInt(ds) == Len(ds) < 8 \/ (Len(ds) = 8 /\ Head(ds) < 8)

\* BigInt(hex): throws on undefined, null or a malformed string
hexToBigIntThrows(hex) == hex.kind # "value"
hexToBigInt(hex) ==
    IF FitsInt(hex.value) THEN IntDigits(ParseDigits(hex.value, 0))
    ELSE BigFromHex(hex.value, <<>>)

DecDigit == <<"0", "1", "2", "3", "4", "5", "6", "7", "8", "9">>

Reverse(s) == [i \in 1..Len(s) |-> s[Len(s) + 1 - i]]

RECURSIVE DropLeadingZeros(_)
DropLeadingZeros(ds) ==
    IF Len(ds) > 1 /\ Head(ds) = 0 THEN DropLeadingZeros(Tail(ds)) ELSE ds

Zeros(k) == [i \in 1..k |-> 0]

DigitChars(ds) == [i \in 1..Len(ds) |-> DecDigit[ds[i] + 1]]

\* Number.prototype.toString of a non-negative integer, as a sequence of characters
RECURSIVE IntToStr(_)
IntToStr(n) ==
    IF n < 10 THEN <<DecDigit[n + 1]>> ELSE Append(IntToStr(n \div 10), DecDigit[(n % 10) + 1])

(* (Number(wei) / 10^unit).toFixed(decimals): the digits below the last    *)
(* kept decimal are dropped, rounding to nearest on the first dropped one. *)
FormatUnits(wei, unit, decimals) ==
    LET dropped == unit - decimals
        padded  == wei \o Zeros(unit + 1 - Len(wei))
        kept    == SubSeq(padded, dropped + 1, Len(padded))
        roundUp == padded[dropped] >= 5
        scaled  == IF roundUp
                   THEN LET inc == BigMulAdd(kept, 1, 1)
                        IN  inc \o Zeros(Len(kept) - Len(inc))
                   ELSE kept
        whole   == DropLeadingZeros(Reverse(SubSeq(scaled, decimals + 1, Len(scaled))))
        frac    == Reverse(SubSeq(scaled, 1, decimals))
    IN  DigitChars(whole) \o <<".">> \o DigitChars(frac)

\* formatEther rendering two decimal digits
formatEtherTwoDecimals(weiHex) == FormatUnits(hexToBigInt(weiHex), EtherDigits, GweiDecimals)

formatEther(weiHex) == FormatUnits(hexToBigInt(weiHex), EtherDigits, EtherDecimals)

formatGwei(weiHex) == FormatUnits(hexToBigInt(weiHex), GweiDigits, GweiDecimals)

\* (hundredths / 100).toFixed(2)
ToFixed2(hundredths) ==
    IntToStr(hundredths \div 100)
        \o <<".", DecDigit[((hundredths % 100) \div 10) + 1], DecDigit[(hundredths % 10) + 1]>>

CharValue(ch) == CHOOSE d \in 0..9 : DecDigit[d + 1] = ch

\* parseFloat of a decimal string with two decimals; the JS number is
\* represented by its value in hundredths
RECURSIVE ParseDecimal(_, _)
ParseDecimal(chars, acc) ==
    IF chars = <<>> THEN acc
    ELSE IF Head(chars) = "." THEN ParseDecimal(Tail(chars), acc)
    ELSE ParseDecimal(Tail(chars), acc * 10 + CharValue(Head(chars)))

parseFloat(str) == ParseDecimal(str, 0)

----------------------------------------------------------------------------
(* The upstream JSON-RPC node.  The chain is fixed: the block at height n  *)
(* and its transactions are a function of n; what varies is the height of  *)
(* the latest block (head) and whether a call answers, fails or returns    *)
(* nothing.                                                                *)

RECURSIVE DigitStr(_)
DigitStr(n) ==
    IF n < 10 THEN DecDigit[n + 1] ELSE DigitStr(n \div 10) \o DecDigit[(n % 10) + 1]

GasPriceWeiAt(h) == 1000000000 + ((h - 1) % 4) * 260000000

\* the block at this height and the next one are full: they hold more
\* transactions than one cycle samples; the block before them is empty
FullHeight == 18

EmptyHeight == FullHeight - 1

\* the heights observed: those of a chain followed from height 1, and those
\* of a chain followed from the empty block
Heights == (1..MaxHead) \cup (EmptyHeight..(EmptyHeight + MaxHead - 1))

\* but for the empty and the full blocks, blocks at odd heights hold two
\* transactions, the others one
TxCountOf(n) ==
    IF n = EmptyHeight THEN 0
    ELSE IF n \in {FullHeight, FullHeight + 1} THEN TxSampleLimit + 1
    ELSE (n % 2) + 1

\* 10^18 wei, "0xde0b6b3a7640000"
OneEtherHex == Val(<<13, 14, 0, 11, 6, 11, 3, 10, 7, 6, 4, 0, 0, 0, 0>>)

\* the first transaction of a block transfers one ether
ChainTx(n, i) ==
    Val([hash        |-> "0xtx" \o DigitStr(n) \o DigitStr(i),
         from        |-> Val("0xsender"),
         to          |-> IF n % 2 = 0 THEN Val("0xrecipient")
                         ELSE IF i % 2 = 0 THEN Null ELSE Undefined,
         value       |-> IF i = 1 THEN OneEtherHex ELSE ToHex(1500000 * i),
         gasPrice    |-> ToHex(GasPriceWeiAt(n)),
         gas         |-> ToHex(21000),
         nonce       |-> ToHex(i),
         blockNumber |-> ToHex(n)])

ChainBlock(n) ==
    Val([number       |-> ToHex(n),
         hash         |-> Val("0xblock" \o DigitStr(n)),
         timestamp    |-> ToHex(1700000000 + 12 * n),
         transactions |-> Val([i \in 1..TxCountOf(n) |-> ChainTx(n, i)]),
         gasUsed      |-> ToHex(21000 * TxCountOf(n)),
         gasLimit     |-> ToHex(30000000),
         miner        |-> Val("0xminer"),
         difficulty   |-> Undefined])

\* a block object without its transaction list
MalformedBlock(n) == Val([ChainBlock(n).value EXCEPT !.transactions = Undefined])

\* a transaction hash, as a node lists it that ignores the flag `true`
HashOnly(hash) == [kind |-> "string", value |-> hash]

\* the blocks at even heights are served by a node that lists by hash
ListedByHash(n) == n % 2 = 0

\* the block at height n with its transactions listed by hash only
HashBlock(n) ==
    Val([ChainBlock(n).value EXCEPT
            !.transactions = Val([i \in 1..TxCountOf(n) |-> HashOnly(ChainTx(n, i).value.hash)])])

\* a transaction object without its amount
BadTx(tx) == Val([tx.value EXCEPT !.value = Undefined])

\* the block at height n with null in place of its first transaction
NullTxBlock(n) ==
    Val([ChainBlock(n).value EXCEPT
            !.transactions = Val([i \in 1..TxCountOf(n) |->
                                     IF i = 1 THEN Null ELSE ChainTx(n, i)])])

\* the transactions of the chain
ChainTxs == UNION {{ChainTx(n, i) : i \in 1..TxCountOf(n)} : n \in Heights}

\* the transaction of the chain with the given hash
TxByHash(hash) == CHOOSE tx \in ChainTxs : tx.value.hash = hash

\* what rpcCall('eth_blockNumber') can produce
BlockNumberResults == IF reliable THEN {ToHex(head)} ELSE {Throw, Undefined, ToHex(head)}

\* what rpcCall('eth_getBlockByNumber', [hex, true]) can produce
\* (a call without a block number is answered by a JSON-RPC error: no result)
GetBlockResults(hex) ==
    IF hex.kind # "value"
    THEN IF reliable THEN {Undefined} ELSE {Throw, Undefined}
    ELSE LET n == hexToDecimal(hex)
             served == IF ListedByHash(n) THEN HashBlock(n) ELSE ChainBlock(n)
         IN  IF reliable THEN {served}
             ELSE {Throw, Undefined, Null, MalformedBlock(n), NullTxBlock(n), served}

\* the first transaction of a block
FirstTxHashes == {ChainTx(n, 1).value.hash : n \in {h \in Heights : TxCountOf(h) > 0}}

IsFirstTx(hash) == hash \in FirstTxHashes

\* what rpcCall('eth_getTransactionByHash', [hash]) can produce; a lookup
\* that goes wrong is that of the first transaction of a block
GetTransactionResults(hash) ==
    IF reliable \/ ~IsFirstTx(hash) THEN {TxByHash(hash)}
    ELSE {Throw, Undefined, Null, TxByHash(hash), BadTx(TxByHash(hash))}

\* what rpcCall('eth_gasPrice') can produce
GasPriceResults ==
    IF reliable THEN {ToHex(GasPriceWeiAt(head))}
    ELSE {Throw, Undefined, ToHex(GasPriceWeiAt(head))}

\* Math.random(), in thousandths
RandomDraws == {0}

----------------------------------------------------------------------------
(* The cache and the refresh cycle.                                        *)

\* InitialCache with no default for the block and the lists
InitialCacheUnset ==
    [block           |-> Undefined,
     transactions    |-> Undefined,
     networkInfo     |-> [blockNumber |-> 0, gasPrice |-> <<"0">>, txCount |-> 0],
     blockHistory    |-> Undefined,
     gasPriceHistory |-> Undefined,
     mempoolStats    |-> [pendingCount |-> 0, avgGasPrice |-> <<"0">>, totalValue |-> <<"0">>],
     lastUpdate      |-> 0]

\* lines 52-68
InitialCache ==
    [block           |-> Null,
     transactions    |-> <<>>,
     networkInfo     |-> [blockNumber |-> 0, gasPrice |-> <<"0">>, txCount |-> 0],
     blockHistory    |-> <<>>,
     gasPriceHistory |-> <<>>,
     mempoolStats    |-> [pendingCount |-> 0, avgGasPrice |-> <<"0">>, totalValue |-> <<"0">>],
     lastUpdate      |-> 0]

\* the locals of one run of fetchLatestBlockData; pc is the awaited RPC method
IdleCycle ==
    [pc                   |-> "idle",
     trigger              |-> "none",
     outcome              |-> "none",
     calls                |-> <<>>,
     latestBlockNumberHex |-> Undefined,
     latestBlockNumber    |-> NaN,
     block                |-> Undefined,
     ethBlock             |-> Null,
     transactions         |-> <<>>,
     txList               |-> <<>>,
     failed               |-> <<>>,
     reqAt                |-> 0,
     reqLastUpdate        |-> 0]

\* a call of fetchLatestBlockData runs synchronously up to its first await
StartCycle(trigger) ==
    [IdleCycle EXCEPT !.pc = "eth_blockNumber", !.trigger = trigger,
                      !.calls = <<"eth_blockNumber">>]

\* EndCycle awaiting a promise that never settles instead of returning
EndCycleHangs(cyc, outcome) == [cyc EXCEPT !.pc = "hung", !.outcome = outcome]

\* the function returns: lines 124, 206 and 208
EndCycle(cyc, outcome) == [cyc EXCEPT !.pc = "done", !.outcome = outcome]

AwaitCall(cyc, method) == [cyc EXCEPT !.pc = method, !.calls = Append(@, method)]

\* || on a string field
OrElse(x, default) == IF Falsy(x) THEN default ELSE x.value

\* lines 128-138
NormaliseBlock(block) ==
    [number       |-> hexToDecimal(block.number),
     hash         |-> OrElse(block.hash, ""),
     timestamp    |-> hexToDecimal(block.timestamp),
     transactions |-> [i \in 1..Len(block.transactions.value) |->
                          LET tx == block.transactions.value[i]
                          IN  IF tx.kind = "string" THEN tx.value ELSE tx.value.hash],
     gasUsed      |-> IntToStr(hexToDecimal(block.gasUsed)),
     gasLimit     |-> IntToStr(hexToDecimal(block.gasLimit)),
     miner        |-> OrElse(block.miner, ""),
     difficulty   |-> IntToStr(hexToDecimal(IF Falsy(block.difficulty)
                                             THEN ToHex(0) ELSE block.difficulty)),
     txCount      |-> Len(block.transactions.value)]

\* block.transactions.map throws when the list is missing, tx.hash when an
\* entry of the list is null
NormaliseBlockThrows(block) ==
    \/ block.transactions.kind # "value"
    \/ \E i \in 1..Len(block.transactions.value) : Falsy(block.transactions.value[i])

\* lines 149-158; formatEther and formatGwei throw on a missing amount
NormaliseTxThrows(txData) ==
    hexToBigIntThrows(txData.value) \/ hexToBigIntThrows(txData.gasPrice)

\* NormaliseTx without the default of line 152
NormaliseTxRawTo(txData) ==
    [hash        |-> txData.hash,
     from        |-> txData.from,
     to          |-> txData.to,
     value       |-> formatEther(txData.value),
     gasPrice    |-> formatGwei(txData.gasPrice),
     gasLimit    |-> IntToStr(hexToDecimal(txData.gas)),
     nonce       |-> hexToDecimal(txData.nonce),
     blockNumber |-> hexToDecimal(IF Falsy(txData.blockNumber)
                                  THEN ToHex(0) ELSE txData.blockNumber)]

\* lines 149-158; from and to stay JavaScript values, as they can be anything
NormaliseTx(txData) ==
    [hash        |-> txData.hash,
     from        |-> txData.from,
     to          |-> Val(OrElse(txData.to, "Contract Creation")),
     value       |-> formatEther(txData.value),
     gasPrice    |-> formatGwei(txData.gasPrice),
     gasLimit    |-> IntToStr(hexToDecimal(txData.gas)),
     nonce       |-> hexToDecimal(txData.nonce),
     blockNumber |-> hexToDecimal(IF Falsy(txData.blockNumber)
                                  THEN ToHex(0) ELSE txData.blockNumber)]

\* the hash of an entry of txList
TxHashOf(tx) == IF tx.kind = "string" THEN tx.value ELSE tx.value.hash

\* TxPass putting the transaction at the front of the list
TxPassPrepends(cyc, result) ==
    IF result = Throw \/ Falsy(result) \/ NormaliseTxThrows(result.value)
    THEN [cyc EXCEPT !.txList = Tail(@), !.failed = Append(@, TxHashOf(Head(cyc.txList)))]
    ELSE [cyc EXCEPT !.txList = Tail(@),
                     !.transactions = <<NormaliseTx(result.value)>> \o @]

\* TxPass with a gas price call made for each transaction
TxPassFetchesGasPrice(cyc, result) ==
    IF result = Throw \/ Falsy(result) \/ NormaliseTxThrows(result.value)
    THEN [cyc EXCEPT !.txList = Tail(@), !.failed = Append(@, TxHashOf(Head(cyc.txList))),
                     !.calls = Append(@, "eth_gasPrice")]
    ELSE [cyc EXCEPT !.txList = Tail(@),
                     !.transactions = Append(@, NormaliseTx(result.value)),
                     !.calls = Append(@, "eth_gasPrice")]

(* lines 145-162, one pass of the loop body once txData is known (result   *)
(* is txData, or Throw when the lookup failed): the transaction is pushed, *)
(* or left out when txData is falsy or the body throws into the catch of   *)
(* line 160.  failed records the hashes left out.                          *)
TxPass(cyc, result) ==
    IF result = Throw \/ Falsy(result) \/ NormaliseTxThrows(result.value)
    THEN [cyc EXCEPT !.txList = Tail(@), !.failed = Append(@, TxHashOf(Head(cyc.txList)))]
    ELSE [cyc EXCEPT !.txList = Tail(@),
                     !.transactions = Append(@, NormaliseTx(result.value))]

(* lines 144-166: the loop runs on until it has to await the lookup of a   *)
(* transaction listed by hash, or until the list is done and eth_gasPrice  *)
(* is awaited.                                                             *)
RECURSIVE ProcessTxs(_)
ProcessTxs(cyc) ==
    IF cyc.txList = <<>> THEN AwaitCall(cyc, "eth_gasPrice")
    ELSE IF Head(cyc.txList).kind = "string"
         THEN AwaitCall(cyc, "eth_getTransactionByHash")
    ELSE ProcessTxs(TxPass(cyc, Head(cyc.txList)))

Slice(s, n) == SubSeq(s, 1, IF Len(s) < n THEN Len(s) ELSE n)

\* lines 116-120: continuation after the eth_blockNumber call
OnBlockNumber(cyc, result) ==
    IF result = Throw THEN EndCycle(cyc, "error")
    ELSE AwaitCall([cyc EXCEPT !.latestBlockNumberHex = result,
                               !.latestBlockNumber = hexToDecimal(result)],
                   "eth_getBlockByNumber")

\* OnBlock with the eth_gasPrice call issued before the block is looked at
OnBlockGasPriceFirst(cyc, result) ==
    IF result = Throw THEN EndCycle(cyc, "error")
    ELSE IF Falsy(result)
         THEN EndCycle([cyc EXCEPT !.block = result, !.calls = Append(@, "eth_gasPrice")],
                       "noblock")
    ELSE IF NormaliseBlockThrows(result.value)
         THEN EndCycle([cyc EXCEPT !.block = result], "error")
    ELSE ProcessTxs([cyc EXCEPT
                        !.block = result,
                        !.ethBlock = Val(NormaliseBlock(result.value)),
                        !.txList = Slice(result.value.transactions.value, TxSampleLimit)])

\* OnBlock without the slice of line 142
OnBlockSamplesAll(cyc, result) ==
    IF result = Throw THEN EndCycle(cyc, "error")
    ELSE IF Falsy(result) THEN EndCycle([cyc EXCEPT !.block = result], "noblock")
    ELSE IF NormaliseBlockThrows(result.value)
         THEN EndCycle([cyc EXCEPT !.block = result], "error")
    ELSE ProcessTxs([cyc EXCEPT
                        !.block = result,
                        !.ethBlock = Val(NormaliseBlock(result.value)),
                        !.txList = result.value.transactions.value])

\* lines 120-166: continuation after the eth_getBlockByNumber call
OnBlock(cyc, result) ==
    IF result = Throw THEN EndCycle(cyc, "error")
    ELSE IF Falsy(result) THEN EndCycle([cyc EXCEPT !.block = result], "noblock")
    ELSE IF NormaliseBlockThrows(result.value)
         THEN EndCycle([cyc EXCEPT !.block = result], "error")
    ELSE ProcessTxs([cyc EXCEPT
                        !.block = result,
                        !.ethBlock = Val(NormaliseBlock(result.value)),
                        !.txList = Slice(result.value.transactions.value, TxSampleLimit)])

\* OnTransaction without the try/catch of lines 145-162
OnTransactionNoCatch(cyc, result) ==
    IF result = Throw \/ (~Falsy(result) /\ NormaliseTxThrows(result.value))
    THEN EndCycle(cyc, "error")
    ELSE ProcessTxs(TxPass(cyc, result))

\* lines 146-166: continuation after an eth_getTransactionByHash call
OnTransaction(cyc, result) == ProcessTxs(TxPass(cyc, result))

\* PushBlockHistory pushing at the tail and dropping the head
PushBlockHistoryAtTail(blockHistory, ethBlock) ==
    LET pushed == Append(blockHistory, ethBlock)
    IN  IF Len(pushed) > BlockHistoryCap THEN SubSeq(pushed, 2, Len(pushed)) ELSE pushed

\* PushBlockHistory trimming one entry too late
PushBlockHistoryOffByOne(blockHistory, ethBlock) ==
    LET pushed == <<ethBlock>> \o blockHistory
    IN  IF Len(pushed) > BlockHistoryCap + 1 THEN Slice(pushed, BlockHistoryCap + 1) ELSE pushed

\* lines 177-180
PushBlockHistory(blockHistory, ethBlock) ==
    LET pushed == <<ethBlock>> \o blockHistory
    IN  IF Len(pushed) > BlockHistoryCap THEN Slice(pushed, BlockHistoryCap) ELSE pushed

\* PushGasPriceHistory pushing at the tail
PushGasPriceHistoryAtTail(gasPriceHistory, point) ==
    LET pushed == Append(gasPriceHistory, point)
    IN  IF Len(pushed) > GasHistoryCap THEN SubSeq(pushed, 2, Len(pushed)) ELSE pushed

\* PushGasPriceHistory without the trim of lines 188-190
PushGasPriceHistoryNoTrim(gasPriceHistory, point) == <<point>> \o gasPriceHistory

\* lines 183-190
PushGasPriceHistory(gasPriceHistory, point) ==
    LET pushed == <<point>> \o gasPriceHistory
    IN  IF Len(pushed) > GasHistoryCap THEN Slice(pushed, GasHistoryCap) ELSE pushed

\* SimulateMempool with a constant average
SimulateMempoolFixedPrice(currentGasPrice, r1, r2) ==
    [pendingCount |-> (r1 * 50000) \div 1000 + 10000,
     avgGasPrice  |-> <<"0">>,
     totalValue   |-> ToFixed2(r2 * 10 + 5000)]

\* lines 193-197
SimulateMempool(currentGasPrice, r1, r2) ==
    [pendingCount |-> (r1 * 50000) \div 1000 + 10000,
     avgGasPrice  |-> currentGasPrice,
     totalValue   |-> ToFixed2(r2 * 10 + 5000)]

\* Commit without the assignment of line 200
CommitKeepsBlock(cache, cyc, currentGasPrice, dateNow, r1, r2) ==
    [block           |-> cache.block,
     transactions    |-> cyc.transactions,
     networkInfo     |-> [blockNumber |-> cyc.latestBlockNumber,
                          gasPrice    |-> currentGasPrice,
                          txCount     |-> Len(cyc.block.value.transactions.value)],
     blockHistory    |-> PushBlockHistory(cache.blockHistory, cyc.ethBlock.value),
     gasPriceHistory |-> PushGasPriceHistory(cache.gasPriceHistory,
                             [blockNumber |-> cyc.latestBlockNumber,
                              gasPrice    |-> parseFloat(currentGasPrice),
                              timestamp   |-> hexToDecimal(cyc.block.value.timestamp)]),
     mempoolStats    |-> SimulateMempool(currentGasPrice, r1, r2),
     lastUpdate      |-> dateNow]

\* Commit without the assignment of line 201
CommitKeepsTransactions(cache, cyc, currentGasPrice, dateNow, r1, r2) ==
    [block           |-> cyc.ethBlock,
     transactions    |-> cache.transactions,
     networkInfo     |-> [blockNumber |-> cyc.latestBlockNumber,
                          gasPrice    |-> currentGasPrice,
                          txCount     |-> Len(cyc.block.value.transactions.value)],
     blockHistory    |-> PushBlockHistory(cache.blockHistory, cyc.ethBlock.value),
     gasPriceHistory |-> PushGasPriceHistory(cache.gasPriceHistory,
                             [blockNumber |-> cyc.latestBlockNumber,
                              gasPrice    |-> parseFloat(currentGasPrice),
                              timestamp   |-> hexToDecimal(cyc.block.value.timestamp)]),
     mempoolStats    |-> SimulateMempool(currentGasPrice, r1, r2),
     lastUpdate      |-> dateNow]

\* Commit without the assignment of line 204
CommitKeepsLastUpdate(cache, cyc, currentGasPrice, dateNow, r1, r2) ==
    [block           |-> cyc.ethBlock,
     transactions    |-> cyc.transactions,
     networkInfo     |-> [blockNumber |-> cyc.latestBlockNumber,
                          gasPrice    |-> currentGasPrice,
                          txCount     |-> Len(cyc.block.value.transactions.value)],
     blockHistory    |-> PushBlockHistory(cache.blockHistory, cyc.ethBlock.value),
     gasPriceHistory |-> PushGasPriceHistory(cache.gasPriceHistory,
                             [blockNumber |-> cyc.latestBlockNumber,
                              gasPrice    |-> parseFloat(currentGasPrice),
                              timestamp   |-> hexToDecimal(cyc.block.value.timestamp)]),
     mempoolStats    |-> SimulateMempool(currentGasPrice, r1, r2),
     lastUpdate      |-> cache.lastUpdate]

\* lines 169-204: everything after the last await, in one event-loop turn
Commit(cache, cyc, currentGasPrice, dateNow, r1, r2) ==
    [block           |-> cyc.ethBlock,
     transactions    |-> cyc.transactions,
     networkInfo     |-> [blockNumber |-> cyc.latestBlockNumber,
                          gasPrice    |-> currentGasPrice,
                          txCount     |-> Len(cyc.block.value.transactions.value)],
     blockHistory    |-> PushBlockHistory(cache.blockHistory, cyc.ethBlock.value),
     gasPriceHistory |-> PushGasPriceHistory(cache.gasPriceHistory,
                             [blockNumber |-> cyc.latestBlockNumber,
                              gasPrice    |-> parseFloat(currentGasPrice),
                              timestamp   |-> hexToDecimal(cyc.block.value.timestamp)]),
     mempoolStats    |-> SimulateMempool(currentGasPrice, r1, r2),
     lastUpdate      |-> dateNow]

\* OnGasPrice marking the cache as never filled when the cycle fails
OnGasPriceFailureResets(cache, cyc, result, dateNow, r1, r2) ==
    IF result = Throw \/ hexToBigIntThrows(result)
    THEN [cache |-> [cache EXCEPT !.lastUpdate = 0], cyc |-> EndCycle(cyc, "error")]
    ELSE [cache |-> Commit(cache, cyc, formatGwei(result), dateNow, r1, r2),
          cyc   |-> EndCycle(cyc, "commit")]

\* OnGasPrice with the block history updated before the gas price is decoded
OnGasPriceHistoryFirst(cache, cyc, result, dateNow, r1, r2) ==
    IF result = Throw \/ hexToBigIntThrows(result)
    THEN [cache |-> [cache EXCEPT !.blockHistory =
                        PushBlockHistory(cache.blockHistory, cyc.ethBlock.value)],
          cyc   |-> EndCycle(cyc, "error")]
    ELSE [cache |-> Commit(cache, cyc, formatGwei(result), dateNow, r1, r2),
          cyc   |-> EndCycle(cyc, "commit")]

\* lines 166-209: continuation after the eth_gasPrice call; the pair of the
\* cache and the cycle it leaves
OnGasPrice(cache, cyc, result, dateNow, r1, r2) ==
    IF result = Throw \/ hexToBigIntThrows(result)
    THEN [cache |-> cache, cyc |-> EndCycle(cyc, "error")]
    ELSE [cache |-> Commit(cache, cyc, formatGwei(result), dateNow, r1, r2),
          cyc   |-> EndCycle(cyc, "commit")]

----------------------------------------------------------------------------
(* The HTTP responses (lines 222-243).                                     *)

NoResponse ==
    [route |-> "none", status |-> 0, body |-> Null, sentAt |-> 0, reqAt |-> 0,
     reqLastUpdate |-> 0, inline |-> "none", afterSnapshot |-> FALSE]

(* c.json(cachedData).  reqAt and reqLastUpdate are Date.now() and          *)
(* cachedData.lastUpdate as line 224 read them, inline is the outcome of    *)
(* the cycle the handler awaited ("none": line 225 was skipped).            *)
\* SnapshotResponse when the awaited cycle rejects instead of catching its error
SnapshotResponseRethrows(cache, dateNow, reqAt, reqLastUpdate, inline) ==
    [route |-> "snapshot", status |-> IF inline = "error" THEN 500 ELSE 200,
     body |-> IF inline = "error" THEN Null ELSE cache,
     sentAt |-> dateNow, reqAt |-> reqAt,
     reqLastUpdate |-> reqLastUpdate, inline |-> inline,
     afterSnapshot |-> response.route = "snapshot"]

\* line 228; status is the HTTP status of c.json
SnapshotResponse(cache, dateNow, reqAt, reqLastUpdate, inline) ==
    [route |-> "snapshot", status |-> 200, body |-> cache, sentAt |-> dateNow, reqAt |-> reqAt,
     reqLastUpdate |-> reqLastUpdate, inline |-> inline,
     afterSnapshot |-> response.route = "snapshot"]

HealthResponse(cache, dateNow) ==
    [route |-> "health", status |-> 200,
     body  |-> [status |-> "ok", lastUpdate |-> cache.lastUpdate,
                blockNumber |-> cache.networkInfo.blockNumber],
     sentAt |-> dateNow, reqAt |-> dateNow, reqLastUpdate |-> cache.lastUpdate,
     inline |-> "none", afterSnapshot |-> FALSE]

MempoolResponse(cache, dateNow) ==
    [route |-> "mempool", status |-> 200, body |-> cache.mempoolStats,
     sentAt |-> dateNow, reqAt |-> dateNow, reqLastUpdate |-> cache.lastUpdate,
     inline |-> "none", afterSnapshot |-> FALSE]

\* IsStale with the poll interval as the threshold
IsStaleAfterPoll(cache, dateNow) == dateNow - cache.lastUpdate >= PollIntervalMs

\* IsStale with a threshold of 60 s
IsStaleLate(cache, dateNow) == dateNow - cache.lastUpdate > 2 * MaxAgeMs

\* line 224
IsStale(cache, dateNow) == dateNow - cache.lastUpdate > MaxAgeMs

----------------------------------------------------------------------------
(* State machine.                                                          *)

NoCycleDone == [outcome |-> "none", calls |-> <<>>, sampled |-> 0, failed |-> <<>>]

NoCommit == [committed |-> FALSE]

\* the clock is observed once per poll interval
ClockStep == PollIntervalMs

One(cyc) == SetToBag({cyc})

InFlight == BagCardinality(cycles)

CanStartCycle == started < MaxCycles

Awaiting(method) == {cyc \in BagToSet(cycles) : cyc.pc = method}

\* lines 52-68 and 213-218: the module is loaded, the first cycle awaits its first call
Init ==
    /\ cachedData = InitialCache
    /\ cycles = One(StartCycle("background"))
    /\ now = StartTime
    /\ nextTimer = StartTime + PollIntervalMs
    /\ head = 1
    /\ response = NoResponse
    /\ lastDone = NoCycleDone
    /\ lastCommit = NoCommit
    /\ started = 1
    /\ reliable = FALSE

(* One continuation of the in-flight cycle old has run: cyc is the cycle   *)
(* it leaves, cache the cache it leaves.  When the function returns, the    *)
(* snapshot handler that awaited it (line 225) sends its response.          *)
Resume(old, cyc, cache) ==
    /\ cachedData' = cache
    /\ IF cyc.pc = "done"
       THEN /\ cycles' = cycles (-) One(old)
            /\ lastDone' = [outcome |-> cyc.outcome, calls |-> cyc.calls,
                             sampled |-> Len(cyc.transactions) + Len(cyc.failed)
                                             + Len(cyc.txList),
                             failed  |-> cyc.failed]
            /\ response' = IF cyc.trigger = "route"
                           THEN SnapshotResponse(cache, now, cyc.reqAt, cyc.reqLastUpdate,
                                                 cyc.outcome)
                           ELSE NoResponse
       ELSE /\ cycles' = (cycles (-) One(old)) (+) One(cyc)
            /\ lastDone' = NoCycleDone
            /\ response' = NoResponse
    /\ UNCHANGED <<now, nextTimer, head, started, reliable>>

\* line 116: the eth_blockNumber call settles
BlockNumberReply ==
    /\ \E old \in Awaiting("eth_blockNumber"), result \in BlockNumberResults :
           Resume(old, OnBlockNumber(old, result), cachedData)
    /\ UNCHANGED lastCommit

\* GetBlockReply asking for the latest block instead of the resolved number
GetBlockReplyLatest ==
    /\ \E old \in Awaiting("eth_getBlockByNumber") :
       \E result \in GetBlockResults(ToHex(head)) :
           Resume(old, OnBlock(old, result), cachedData)
    /\ UNCHANGED lastCommit

\* line 120: the eth_getBlockByNumber call settles
GetBlockReply ==
    /\ \E old \in Awaiting("eth_getBlockByNumber") :
       \E result \in GetBlockResults(old.latestBlockNumberHex) :
           Resume(old, OnBlock(old, result), cachedData)
    /\ UNCHANGED lastCommit

\* line 146: an eth_getTransactionByHash call settles
GetTransactionReply ==
    /\ \E old \in Awaiting("eth_getTransactionByHash") :
       \E result \in GetTransactionResults(Head(old.txList).value) :
           Resume(old, OnTransaction(old, result), cachedData)
    /\ UNCHANGED lastCommit

\* line 166: the eth_gasPrice call settles
GasPriceReply ==
    \E old \in Awaiting("eth_gasPrice"), result \in GasPriceResults,
       r1 \in RandomDraws, r2 \in RandomDraws :
        LET after == OnGasPrice(cachedData, old, result, now, r1, r2)
            currentGasPrice == formatGwei(result)
        IN  /\ Resume(old, after.cyc, after.cache)
            /\ lastCommit' =
                   IF after.cyc.outcome = "commit"
                   THEN [committed    |-> TRUE,
                         block        |-> old.ethBlock,
                         transactions |-> old.transactions,
                         networkInfo  |->
                             [blockNumber |-> old.latestBlockNumber,
                              gasPrice    |-> currentGasPrice,
                              txCount     |-> old.ethBlock.value.txCount],
                         mempoolStats |-> SimulateMempool(currentGasPrice, r1, r2),
                         lastUpdate   |-> now]
                   ELSE lastCommit

\* TimerTick backing off: the tick is spent without a call as long as no
\* cycle has ever committed
TimerTickBacksOff ==
    /\ now >= nextTimer
    /\ CanStartCycle
    /\ cycles' = IF lastCommit.committed
                 THEN cycles (+) One(StartCycle("background"))
                 ELSE cycles
    /\ started' = started + 1
    /\ nextTimer' = nextTimer + PollIntervalMs
    /\ response' = NoResponse
    /\ lastDone' = NoCycleDone
    /\ UNCHANGED <<cachedData, now, head, lastCommit, reliable>>

\* TimerTick skipping its call while an earlier cycle is still running
TimerTickSkipsWhenBusy ==
    /\ now >= nextTimer
    /\ CanStartCycle
    /\ IF InFlight = 0
       THEN /\ cycles' = cycles (+) One(StartCycle("background"))
            /\ started' = started + 1
       ELSE UNCHANGED <<cycles, started>>
    /\ nextTimer' = nextTimer + PollIntervalMs
    /\ response' = NoResponse
    /\ lastDone' = NoCycleDone
    /\ UNCHANGED <<cachedData, now, head, lastCommit, reliable>>

\* lines 216-218: the interval timer fires
TimerTick ==
    /\ now >= nextTimer
    /\ CanStartCycle
    /\ cycles' = cycles (+) One(StartCycle("background"))
    /\ nextTimer' = nextTimer + PollIntervalMs
    /\ started' = started + 1
    /\ response' = NoResponse
    /\ lastDone' = NoCycleDone
    /\ UNCHANGED <<cachedData, now, head, lastCommit, reliable>>

\* lines 222-229: GET /api/ethereum/snapshot
SnapshotRequest ==
    /\ IF IsStale(cachedData, now)
       THEN /\ CanStartCycle
            /\ cycles' = cycles (+) One([StartCycle("route") EXCEPT
                                            !.reqAt = now,
                                            !.reqLastUpdate = cachedData.lastUpdate])
            /\ started' = started + 1
            /\ response' = NoResponse
       ELSE /\ response' = SnapshotResponse(cachedData, now, now, cachedData.lastUpdate,
                                            "none")
            /\ UNCHANGED <<cycles, started>>
    /\ lastDone' = NoCycleDone
    /\ UNCHANGED <<cachedData, now, nextTimer, head, lastCommit, reliable>>

\* HealthRequest kicking off a refresh, without awaiting it, when the cache is stale
HealthRequestRefreshes ==
    /\ response' = HealthResponse(cachedData, now)
    /\ lastDone' = NoCycleDone
    /\ IF IsStale(cachedData, now) /\ CanStartCycle
       THEN /\ cycles' = cycles (+) One(StartCycle("background"))
            /\ started' = started + 1
       ELSE UNCHANGED <<cycles, started>>
    /\ UNCHANGED <<cachedData, now, nextTimer, head, lastCommit, reliable>>

\* lines 232-238: GET /api/ethereum/health
HealthRequest ==
    /\ response' = HealthResponse(cachedData, now)
    /\ lastDone' = NoCycleDone
    /\ UNCHANGED <<cachedData, cycles, now, nextTimer, head, lastCommit, started, reliable>>

\* lines 241-243: GET /api/ethereum/mempool
MempoolRequest ==
    /\ response' = MempoolResponse(cachedData, now)
    /\ lastDone' = NoCycleDone
    /\ UNCHANGED <<cachedData, cycles, now, nextTimer, head, lastCommit, started, reliable>>

\* time passes, and meanwhile the upstream chain may grow by a block; a due
\* timer fires before more time passes
AdvanceClock ==
    /\ now < nextTimer
    /\ now' = now + ClockStep
    /\ head' \in {h \in {head, head + 1} : h \in Heights}
    /\ response' = NoResponse
    /\ lastDone' = NoCycleDone
    /\ UNCHANGED <<cachedData, cycles, nextTimer, lastCommit, started, reliable>>

\* the upstream node recovers: from now on every call is answered properly
Recover ==
    /\ ~reliable
    /\ reliable' = TRUE
    /\ response' = NoResponse
    /\ lastDone' = NoCycleDone
    /\ UNCHANGED <<cachedData, cycles, now, nextTimer, head, lastCommit, started>>

Next ==
    \/ BlockNumberReply
    \/ GetBlockReply
    \/ GetTransactionReply
    \/ GasPriceReply
    \/ TimerTick
    \/ SnapshotRequest
    \/ HealthRequest
    \/ MempoolRequest
    \/ AdvanceClock
    \/ Recover

Spec == Init /\ [][Next]_vars

(* Fairness: a due timer fires, time passes, and every pending RPC call    *)
(* settles (fetch resolves or rejects).  The last three conjuncts are the  *)
(* weak fairness of GetBlockReply, GetTransactionReply and GasPriceReply   *)
(* with ENABLED written out: each is enabled exactly when a cycle awaits   *)
(* its call.                                                               *)
Fairness ==
    /\ WF_vars(TimerTick)
    /\ WF_vars(AdvanceClock)
    /\ WF_vars(BlockNumberReply)
    /\ ([]<>(Awaiting("eth_getBlockByNumber") = {}) \/ []<><<GetBlockReply>>_vars)
    /\ ([]<>(Awaiting("eth_getTransactionByHash") = {}) \/ []<><<GetTransactionReply>>_vars)
    /\ ([]<>(Awaiting("eth_gasPrice") = {}) \/ []<><<GasPriceReply>>_vars)

(* The program observed from the failure of its first cycle: the startup  *)
(* call of line 213 has just ended in the catch block, its eth_blockNumber *)
(* call having thrown at once.                                             *)
InitAfterFailure ==
    /\ cachedData = InitialCache
    /\ cycles = EmptyBag
    /\ now = StartTime
    /\ nextTimer = StartTime + PollIntervalMs
    /\ head = 1
    /\ response = NoResponse
    /\ lastDone = [outcome |-> "error", calls |-> <<"eth_blockNumber">>,
                   sampled |-> 0, failed |-> <<>>]
    /\ lastCommit = NoCommit
    /\ started = 1
    /\ reliable = FALSE

SpecLive == InitAfterFailure /\ [][Next]_vars /\ Fairness

(* The program started when the latest block of the chain is the empty    *)
(* block before the full ones, observed from the failure of its first      *)
(* cycle, as in InitAfterFailure.                                          *)
InitFull ==
    /\ cachedData = InitialCache
    /\ cycles = EmptyBag
    /\ now = StartTime
    /\ nextTimer = StartTime + PollIntervalMs
    /\ head = EmptyHeight
    /\ response = NoResponse
    /\ lastDone = [outcome |-> "error", calls |-> <<"eth_blockNumber">>,
                   sampled |-> 0, failed |-> <<>>]
    /\ lastCommit = NoCommit
    /\ started = 1
    /\ reliable = FALSE

SpecFull == InitFull /\ [][Next]_vars

(* The same program observed later: the startup call and all the ticks of *)
(* the timer but the last one the model follows have been made, and each   *)
(* of these cycles has failed at once.                                     *)
InitFullLate ==
    /\ cachedData = InitialCache
    /\ cycles = EmptyBag
    /\ now = StartTime + (MaxCycles - 2) * PollIntervalMs
    /\ nextTimer = StartTime + (MaxCycles - 1) * PollIntervalMs
    /\ head = EmptyHeight
    /\ response = NoResponse
    /\ lastDone = [outcome |-> "error", calls |-> <<"eth_blockNumber">>,
                   sampled |-> 0, failed |-> <<>>]
    /\ lastCommit = NoCommit
    /\ started = MaxCycles - 1
    /\ reliable = FALSE

SpecFullLive == InitFullLate /\ [][Next]_vars /\ Fairness

(* The same program observed from a warm cache: the state after            *)
(* WarmCommits cycles that all saw block 1 have committed at StartTime      *)
(* (cycles in flight together may commit within the same millisecond), and  *)
(* one more cycle awaits its first call.                                    *)
WarmCommits == {BlockHistoryCap - 1, GasHistoryCap - 1}

WarmCycle == OnBlock(OnBlockNumber(StartCycle("background"), ToHex(1)), ChainBlock(1))

Min(a, b) == IF a < b THEN a ELSE b

(* k >= 1 commits of WarmCycle: the current fields are those of its commit, *)
(* each history holds one copy of its entry per commit, up to its cap.      *)
WarmCache(k) ==
    LET once == OnGasPrice(InitialCache, WarmCycle, ToHex(GasPriceWeiAt(1)), StartTime, 0, 0).cache
    IN  [once EXCEPT
            !.blockHistory = [i \in 1..Min(k, BlockHistoryCap) |-> once.blockHistory[1]],
            !.gasPriceHistory = [i \in 1..Min(k, GasHistoryCap) |-> once.gasPriceHistory[1]]]

InitWarm ==
    /\ \E k \in WarmCommits : cachedData = WarmCache(k)
    /\ cycles = One(StartCycle("background"))
    /\ now = StartTime
    /\ nextTimer = StartTime + PollIntervalMs
    /\ head = 1
    /\ response = NoResponse
    /\ lastDone = NoCycleDone
    /\ lastCommit = [committed    |-> TRUE,
                     block        |-> WarmCycle.ethBlock,
                     transactions |-> WarmCycle.transactions,
                     networkInfo  |-> [blockNumber |-> 1,
                                      gasPrice    |-> formatGwei(ToHex(GasPriceWeiAt(1))),
                                      txCount     |-> TxCountOf(1)],
                     mempoolStats |-> SimulateMempool(formatGwei(ToHex(GasPriceWeiAt(1))), 0, 0),
                     lastUpdate   |-> StartTime]
    /\ started = 1
    /\ reliable = FALSE

SpecWarm == InitWarm /\ [][Next]_vars

----------------------------------------------------------------------------
(* Properties.                                                             *)

BlockNumbers == [i \in 1..Len(cachedData.blockHistory) |-> cachedData.blockHistory[i].number]

Committed == lastDone.outcome = "commit"

\* C1: in every observable state the block history has at most 20 entries.
C1_BlockHistoryBounded == Len(cachedData.blockHistory) <= BlockHistoryCap

\* a commit has just pushed onto a full history: at least 21 blocks were pushed
C1_Witness ==
    /\ Committed
    /\ Len(cachedData.blockHistory) = BlockHistoryCap
    /\ Len(cachedData.gasPriceHistory) > BlockHistoryCap

\* C2: the block history is strictly ordered newest-first by block number.
C2_StrictlyNewestFirst ==
    \A i \in 1..(Len(BlockNumbers) - 1) : BlockNumbers[i] > BlockNumbers[i + 1]

\* C3: a cycle that fails with an error leaves every field of the cache as it
\* was: the step in which it fails changes nothing, and no step other than a
\* commit changes the cache at all.
C3_FailedCycleKeepsCache ==
    [][/\ lastDone'.outcome = "error" => cachedData' = cachedData
       /\ cachedData' # cachedData => lastDone'.outcome = "commit"]_vars

\* a cycle has just failed at its last call, eth_gasPrice, over a populated cache
C3_Witness ==
    /\ lastDone.outcome = "error"
    /\ Len(lastDone.calls) = 3
    /\ cachedData.lastUpdate > 0

\* C4: a cycle whose block fetch returns no block ends without the
\* eth_gasPrice call and leaves the whole cache as it was.
C4_NoBlockKeepsCache ==
    [][lastDone'.outcome = "noblock" =>
         /\ cachedData' = cachedData
         /\ \A i \in 1..Len(lastDone'.calls) : lastDone'.calls[i] # "eth_gasPrice"]_vars

\* a cycle has just ended on a missing block, over a populated cache
C4_Witness ==
    /\ lastDone.outcome = "noblock"
    /\ lastDone.calls = <<"eth_blockNumber", "eth_getBlockByNumber">>
    /\ cachedData.lastUpdate > 0

\* C5: at most one run of fetchLatestBlockData is in progress at any time.
C5_CyclesNotInterleaved == InFlight <= 1

\* C6: the five current fields of the cache were all written by one cycle,
\* the last one to commit, or are all the initial defaults.
C6_SwapAtomic ==
    LET from == IF lastCommit.committed THEN lastCommit ELSE InitialCache
    IN  /\ cachedData.block = from.block
        /\ cachedData.transactions = from.transactions
        /\ cachedData.networkInfo = from.networkInfo
        /\ cachedData.mempoolStats = from.mempoolStats
        /\ cachedData.lastUpdate = from.lastUpdate

\* a second cycle has just committed another block, with other transactions,
\* than its predecessor
C6_Witness ==
    /\ Committed
    /\ Len(BlockNumbers) >= 2
    /\ BlockNumbers[1] # BlockNumbers[2]
    /\ cachedData.transactions # <<>>

\* C7: no two entries of the block history have the same block number.
C7_OneEntryPerHeight ==
    \A i, j \in 1..Len(BlockNumbers) : i # j => BlockNumbers[i] # BlockNumbers[j]

SnapshotSent == response.route = "snapshot"

AgeAtRequest == response.reqAt - response.reqLastUpdate

AgeAtResponse == response.sentAt - response.body.lastUpdate

\* C8 as stated: a snapshot call at cache age 45 s is answered after an inline
\* cycle, with a lastUpdate newer than the one the call found.
C8_InlineRefreshAdvances ==
    (SnapshotSent /\ AgeAtRequest = 45000) =>
        /\ response.inline # "none"
        /\ response.body.lastUpdate > response.reqLastUpdate

\* C8 amended: a snapshot call at a cache age above 30 s (45 s included) is
\* answered after an inline cycle has finished; the lastUpdate sent is newer
\* than the one the call found when that cycle committed, and never older.
C8_InlineRefresh ==
    (SnapshotSent /\ AgeAtRequest > MaxAgeMs) =>
        /\ response.inline \in {"commit", "noblock", "error"}
        /\ response.inline = "commit" =>
               /\ response.body.lastUpdate > response.reqLastUpdate
               /\ response.body.lastUpdate = response.sentAt
        /\ response.body.lastUpdate >= response.reqLastUpdate

\* a call that found the cache 45 s old has been answered after its inline cycle committed
C8_Witness ==
    /\ SnapshotSent
    /\ AgeAtRequest = 45000
    /\ response.inline = "commit"

Fresh == cachedData.lastUpdate > 0 /\ now - cachedData.lastUpdate <= MaxAgeMs

RouteCycleStarted ==
    \E cyc \in BagToSet(cycles') :
        /\ cyc.trigger = "route"
        /\ cyc.pc = "eth_blockNumber"
        /\ CopiesIn(cyc, cycles') > CopiesIn(cyc, cycles)

\* C9: within 30 s of a successful refresh no snapshot call starts a refresh
\* cycle: each is answered at once, with no cycle started and no RPC call made.
C9_FreshCallsStartNoCycle ==
    [][Fresh =>
         /\ ~RouteCycleStarted
         /\ (response'.route = "snapshot" /\ response'.reqAt = now
                /\ response'.reqLastUpdate = cachedData.lastUpdate) =>
                (response'.inline = "none" /\ cycles' = cycles /\ started' = started)]_vars

\* the second of two calls made exactly 30 s after a commit has been answered
C9_Witness ==
    /\ SnapshotSent
    /\ response.afterSnapshot
    /\ response.inline = "none"
    /\ response.body.lastUpdate > 0
    /\ AgeAtResponse = MaxAgeMs

\* C10 as stated: every snapshot sent is at most 30 s old when it is sent.
C10_StalenessBounded == SnapshotSent => AgeAtResponse <= MaxAgeMs

\* C10 amended: a snapshot sent without a refresh, or after an inline cycle
\* that committed, is at most 30 s old when it is sent.
C10_StalenessBoundedOnSuccess ==
    (SnapshotSent /\ response.inline \in {"none", "commit"}) => AgeAtResponse <= MaxAgeMs

\* a snapshot was sent after an inline cycle that took time and committed
C10_Witness ==
    /\ SnapshotSent
    /\ response.inline = "commit"
    /\ response.sentAt > response.reqAt
    /\ AgeAtResponse = 0

TxHashes(transactions) == {transactions[i].hash : i \in 1..Len(transactions)}

\* the cycles whose transaction loop is over with exactly one transaction left out
OneTxFailed(cyc) == cyc.txList = <<>> /\ Len(cyc.failed) = 1

C12_GasPriceHistoryBounded == Len(cachedData.gasPriceHistory) <= GasHistoryCap

\* a commit has just pushed onto a full gas price history: the entry below the
\* new one was pushed, for block 2, onto the 49 entries of block 1
C12_Witness ==
    /\ Committed
    /\ Len(cachedData.gasPriceHistory) = GasHistoryCap
    /\ cachedData.gasPriceHistory[2].blockNumber = 2
    /\ cachedData.gasPriceHistory[GasHistoryCap].blockNumber = 1

(* C13: a step that answers the health or the mempool route starts no      *)
(* cycle, issues no RPC call and changes no field of the cache, whatever   *)
(* the age of the cache; the answer is sent at once and is built from the  *)
(* cache as it is.                                                         *)
C13_HealthAndMempoolOnlyRead ==
    [][response'.route \in {"health", "mempool"} =>
         /\ cachedData' = cachedData
         /\ cycles' = cycles
         /\ started' = started
         /\ response'.sentAt = now /\ response'.reqAt = now /\ response'.inline = "none"
         /\ response'.route = "health" =>
                response'.body = [status      |-> "ok",
                                  lastUpdate  |-> cachedData.lastUpdate,
                                  blockNumber |-> cachedData.networkInfo.blockNumber]
         /\ response'.route = "mempool" => response'.body = cachedData.mempoolStats]_vars

\* the health route has answered from a cache that was never filled and is
\* older than 30 s, while cycles could still be started
C13_Witness ==
    /\ response.route = "health"
    /\ cachedData.lastUpdate = 0
    /\ IsStale(cachedData, now)
    /\ CanStartCycle

(* C14: when the cycle that the snapshot route awaits ends in failure (an  *)
(* error, or no block), the handler answers in that same step with status  *)
(* 200, and the body is the cache as it was before the step, which the     *)
(* step leaves unchanged.                                                  *)
C14_FailureNotSurfaced ==
    [][(lastDone'.outcome \in {"error", "noblock"}
            /\ \E cyc \in BagToSet(cycles) :
                   cyc.trigger = "route" /\ CopiesIn(cyc, cycles') < CopiesIn(cyc, cycles)) =>
         /\ response'.route = "snapshot"
         /\ response'.status = 200
         /\ response'.inline = lastDone'.outcome
         /\ response'.body = cachedData
         /\ cachedData' = cachedData]_vars

\* a snapshot call has been answered after its inline cycle took time and
\* failed, with the contents and the lastUpdate that the call had found
C14_Witness ==
    /\ SnapshotSent
    /\ response.inline = "error"
    /\ response.status = 200
    /\ response.sentAt > response.reqAt
    /\ response.body.lastUpdate = response.reqLastUpdate
    /\ response.body = cachedData

(* C15: as long as no cycle has committed, every answer has status 200 and *)
(* carries the zero-valued defaults: the snapshot is block null, no        *)
(* transactions, empty histories, networkInfo {0, "0", 0}, mempoolStats    *)
(* {0, "0", "0"} and lastUpdate 0; health reports blockNumber 0 and        *)
(* lastUpdate 0; mempool is the default mempoolStats.                      *)
C15_DefaultsBeforeFirstCommit ==
    (~lastCommit.committed /\ response.route # "none") =>
        /\ response.status = 200
        /\ response.route = "snapshot" =>
               /\ response.body.block = Null
               /\ response.body.transactions = <<>>
               /\ response.body.blockHistory = <<>>
               /\ response.body.gasPriceHistory = <<>>
               /\ response.body.networkInfo =
                      [blockNumber |-> 0, gasPrice |-> <<"0">>, txCount |-> 0]
               /\ response.body.mempoolStats =
                      [pendingCount |-> 0, avgGasPrice |-> <<"0">>, totalValue |-> <<"0">>]
               /\ response.body.lastUpdate = 0
        /\ response.route = "health" =>
               response.body = [status |-> "ok", lastUpdate |-> 0, blockNumber |-> 0]
        /\ response.route = "mempool" =>
               response.body = [pendingCount |-> 0, avgGasPrice |-> <<"0">>, totalValue |-> <<"0">>]

\* the snapshot route has answered before any commit, after its inline cycle failed
C15_Witness ==
    /\ ~lastCommit.committed
    /\ SnapshotSent
    /\ response.inline \in {"error", "noblock"}
    /\ response.body.lastUpdate = 0

BackgroundCycle == StartCycle("background")

ClockTimes == {StartTime + k * PollIntervalMs : k \in 0..MaxCycles}

(* C17: once the RPC node answers every call, and as long as a cycle can   *)
(* still be started, a cycle commits and lastUpdate advances from before    *)
(* the time of the recovery to that time or later; the retry after a       *)
(* failed cycle is the next tick of the unchanged 15 s timer, a cycle that  *)
(* starts from scratch.                                                    *)
C17_NextCycleIsTheRetry ==
    /\ \A t \in ClockTimes :
           (reliable /\ CanStartCycle /\ now = t /\ cachedData.lastUpdate < t)
               ~> (cachedData.lastUpdate >= t)
    /\ [][lastDone.outcome \in {"error", "noblock"} =>
             /\ nextTimer' \in {nextTimer, nextTimer + PollIntervalMs}
             /\ nextTimer' # nextTimer => cycles' = cycles (+) One(StartCycle("background"))]_vars

\* the first cycle failed, the node recovered, and the cycle of the next tick
\* has now committed
C17_Witness ==
    /\ reliable
    /\ Committed
    /\ nextTimer > StartTime + PollIntervalMs
    /\ Len(cachedData.blockHistory) = 1
    /\ cachedData.lastUpdate > StartTime

(* C18: every transaction in the cache has a string as recipient: the      *)
(* sentinel "Contract Creation" when the `to` of the fetched transaction   *)
(* is absent or null, that `to` otherwise.                                 *)
C18_RecipientNeverNull ==
    \A i \in 1..Len(cachedData.transactions) :
        LET tx     == cachedData.transactions[i]
            txData == TxByHash(tx.hash).value
        IN  /\ tx.to.kind = "value"
            /\ tx.to = IF Falsy(txData.to) THEN Val("Contract Creation") ELSE txData.to

\* the cache holds a transaction fetched without `to` and one fetched with a
\* null `to`, both with the sentinel as recipient
C18_Witness ==
    /\ Len(cachedData.transactions) = 2
    /\ TxByHash(cachedData.transactions[1].hash).value.to = Undefined
    /\ TxByHash(cachedData.transactions[2].hash).value.to = Null
    /\ \A i \in 1..2 : cachedData.transactions[i].to = Val("Contract Creation")

(* C19: a cached transaction fetched with the value 0xde0b6b3a7640000      *)
(* (10^18 wei) shows the value "1.000000", and one fetched with the gas    *)
(* price 0x3b9aca00 (10^9 wei) shows the gas price "1.00".                 *)
C19_FormatsOneEtherOneGwei ==
    \A i \in 1..Len(cachedData.transactions) :
        LET tx     == cachedData.transactions[i]
            txData == TxByHash(tx.hash).value
        IN  /\ txData.value = Val(<<13, 14, 0, 11, 6, 11, 3, 10, 7, 6, 4, 0, 0, 0, 0>>) =>
                   tx.value = <<"1", ".", "0", "0", "0", "0", "0", "0">>
            /\ txData.gasPrice = Val(<<3, 11, 9, 10, 12, 10, 0, 0>>) =>
                   tx.gasPrice = <<"1", ".", "0", "0">>

\* the cache holds a transaction of 10^18 wei at a gas price of 10^9 wei
C19_Witness ==
    /\ cachedData.transactions # <<>>
    /\ TxByHash(cachedData.transactions[1].hash).value.value = OneEtherHex
    /\ TxByHash(cachedData.transactions[1].hash).value.gasPrice = ToHex(1000000000)
    /\ cachedData.transactions[1].value = <<"1", ".", "0", "0", "0", "0", "0", "0">>
    /\ cachedData.transactions[1].gasPrice = <<"1", ".", "0", "0">>

\* after is before with entry pushed at the front and the tail beyond cap dropped
PushedOnto(after, before, entry, cap) ==
    /\ Len(after) = Min(Len(before) + 1, cap)
    /\ after[1] = entry
    /\ \A i \in 2..Len(after) : after[i] = before[i - 1]

(* C20: a step in which a cycle commits pushes the block of that cycle at  *)
(* the front of blockHistory and its gas price sample at the front of      *)
(* gasPriceHistory; the earlier entries move down by one, in order, and    *)
(* only what lies beyond 20 and 50 entries is dropped, so that the lengths *)
(* grow by one per commit up to 20 and 50.  No other step changes either   *)
(* history.                                                                *)
C20_OnePushPerCommit ==
    [][IF lastDone'.outcome = "commit"
       THEN /\ PushedOnto(cachedData'.blockHistory, cachedData.blockHistory,
                          lastCommit'.block.value, BlockHistoryCap)
            /\ PushedOnto(cachedData'.gasPriceHistory, cachedData.gasPriceHistory,
                          [blockNumber |-> lastCommit'.networkInfo.blockNumber,
                           gasPrice    |-> parseFloat(lastCommit'.networkInfo.gasPrice),
                           timestamp   |-> lastCommit'.block.value.timestamp],
                          GasHistoryCap)
       ELSE /\ cachedData'.blockHistory = cachedData.blockHistory
            /\ cachedData'.gasPriceHistory = cachedData.gasPriceHistory]_vars

\* a commit has just pushed block 2 onto a full block history of entries for
\* block 1, and its sample onto a gas price history that is not full
C20_Witness ==
    /\ Committed
    /\ Len(cachedData.blockHistory) = BlockHistoryCap
    /\ Len(cachedData.gasPriceHistory) \in (BlockHistoryCap + 1)..(GasHistoryCap - 1)
    /\ cachedData.blockHistory[1].number = 2
    /\ cachedData.blockHistory[2].number = 1
    /\ cachedData.gasPriceHistory[1].blockNumber = 2

(* C21: whenever the cache holds a block, the reported height is the       *)
(* number of that block, and the transaction count of networkInfo, the     *)
(* txCount of the block and the number of hashes the block lists are the   *)
(* same number.                                                            *)
C21_HeightAndContentAgree ==
    cachedData.block # Null =>
        LET block == cachedData.block.value
        IN  /\ cachedData.networkInfo.blockNumber = block.number
            /\ cachedData.networkInfo.txCount = block.txCount
            /\ block.txCount = Len(block.transactions)

\* a cycle has just committed the block it had resolved, after the chain
\* had grown past it
C21_Witness ==
    /\ Committed
    /\ cachedData.block.value.number = 1
    /\ cachedData.networkInfo.blockNumber = 1
    /\ cachedData.block.value.txCount = 2
    /\ head = 2

\* C22: the cached transaction list never has more than 15 entries, however
\* many transactions the cached block holds.
C22_AtMostFifteenTransactions == Len(cachedData.transactions) <= TxSampleLimit

\* the cache holds a block of 16 transactions with 15 of them sampled
C22_Witness ==
    /\ cachedData.block # Null
    /\ cachedData.block.value.txCount = TxSampleLimit + 1
    /\ Len(cachedData.transactions) = TxSampleLimit

(* C23: in every state mempoolStats.avgGasPrice is networkInfo.gasPrice:   *)
(* both are "0" until a cycle commits, and from then on both are the gas   *)
(* price that the last committing cycle fetched.                           *)
C23_AvgGasPriceIsGasPrice ==
    /\ cachedData.mempoolStats.avgGasPrice = cachedData.networkInfo.gasPrice
    /\ cachedData.networkInfo.gasPrice =
           IF lastCommit.committed THEN lastCommit.networkInfo.gasPrice ELSE <<"0">>

\* a cycle has just committed a gas price fetched after the chain had grown:
\* the average is that price, not the gas price of the sampled transactions
C23_Witness ==
    /\ Committed
    /\ cachedData.transactions # <<>>
    /\ cachedData.mempoolStats.avgGasPrice = <<"1", ".", "2", "6">>
    /\ \A i \in 1..Len(cachedData.transactions) :
           cachedData.transactions[i].gasPrice = <<"1", ".", "0", "0">>

\* how many of the calls are calls of method
CallCount(calls, method) == Cardinality({i \in 1..Len(calls) : calls[i] = method})

(* C24: no cycle, running or just ended, has called eth_gasPrice more than *)
(* once, and a cycle that has committed has called it exactly once, as its *)
(* last call, however many transactions it sampled.                        *)
C24_GasPriceOncePerCycle ==
    /\ \A cyc \in BagToSet(cycles) : CallCount(cyc.calls, "eth_gasPrice") <= 1
    /\ CallCount(lastDone.calls, "eth_gasPrice") <= 1
    /\ Committed =>
           /\ CallCount(lastDone.calls, "eth_gasPrice") = 1
           /\ lastDone.calls[Len(lastDone.calls)] = "eth_gasPrice"

\* a cycle that sampled 15 transactions, each looked up by hash, has committed
C24_Witness ==
    /\ Committed
    /\ lastDone.sampled = TxSampleLimit
    /\ CallCount(lastDone.calls, "eth_getTransactionByHash") = TxSampleLimit
    /\ CallCount(lastDone.calls, "eth_gasPrice") = 1

RouteCycleInFlight == \E cyc \in BagToSet(cycles) : cyc.trigger = "route"

(* C25: a cycle makes at most 18 RPC calls, of which at most 15 are        *)
(* transaction lookups; when every RPC call settles, a cycle in flight     *)
(* ends, in a commit or in an abort, and a snapshot request that awaits a  *)
(* cycle is answered.                                                      *)
C25_CyclesTerminate ==
    /\ [](/\ \A cyc \in BagToSet(cycles) :
               /\ Len(cyc.calls) <= TxSampleLimit + 3
               /\ CallCount(cyc.calls, "eth_getTransactionByHash") <= TxSampleLimit
           /\ Len(lastDone.calls) <= TxSampleLimit + 3
           /\ lastDone.outcome \in {"none", "commit", "noblock", "error"})
    /\ (InFlight > 0) ~> (InFlight = 0)
    /\ RouteCycleInFlight ~> (SnapshotSent /\ response.inline # "none")

\* a cycle started by the snapshot route has ended after 18 calls, and the
\* request is answered
C25_Witness ==
    /\ Len(lastDone.calls) = TxSampleLimit + 3
    /\ lastDone.outcome \in {"commit", "error"}
    /\ SnapshotSent
    /\ response.inline = lastDone.outcome
    /\ InFlight = 0

(* C26: whenever the cache holds a block, the first entry of blockHistory  *)
(* is that block and the first entry of gasPriceHistory is for the height  *)
(* that networkInfo reports.                                               *)
C26_HeadCoherence ==
    cachedData.block # Null =>
        /\ cachedData.blockHistory # <<>>
        /\ cachedData.blockHistory[1] = cachedData.block.value
        /\ cachedData.gasPriceHistory # <<>>
        /\ cachedData.gasPriceHistory[1].blockNumber = cachedData.networkInfo.blockNumber

\* of two cycles in flight together, the one that saw the older block has
\* committed last
C26_Witness ==
    /\ Committed
    /\ Len(cachedData.blockHistory) = 2
    /\ cachedData.block.value.number = 1
    /\ cachedData.blockHistory[2].number = 2
    /\ cachedData.lastUpdate < StartTime + PollIntervalMs + MaxAgeMs

(* C27: the current block never goes backwards: a step in which a cycle    *)
(* commits leaves a block number, and a reported height, at least as high  *)
(* as the ones it found (the latest block number of the RPC node never     *)
(* decreases).                                                             *)
C27_BlockNeverGoesBack ==
    [][lastDone'.outcome = "commit" =>
         /\ cachedData'.networkInfo.blockNumber >= cachedData.networkInfo.blockNumber
         /\ cachedData.block # Null =>
                cachedData'.block.value.number >= cachedData.block.value.number]_vars

(* C28: lastUpdate changes only in a step in which a cycle commits, and    *)
(* never decreases: a commit sets it to the time of the commit, which is   *)
(* not before its previous value; a step in which a cycle fails or ends    *)
(* without a block, and a step that answers a route, leave it as it was.   *)
C28_LastUpdateOnlyByCommit ==
    [][/\ cachedData'.lastUpdate >= cachedData.lastUpdate
       /\ cachedData'.lastUpdate # cachedData.lastUpdate => lastDone'.outcome = "commit"
       /\ lastDone'.outcome = "commit" => cachedData'.lastUpdate = now
       /\ lastDone'.outcome \in {"error", "noblock"} =>
              cachedData'.lastUpdate = cachedData.lastUpdate
       /\ response'.route # "none" /\ lastDone'.outcome # "commit" =>
              cachedData'.lastUpdate = cachedData.lastUpdate]_vars

\* a cycle has just failed at its gas price call, after an earlier cycle had
\* committed and time had passed: lastUpdate is still the time of that commit
C28_Witness ==
    /\ lastDone.outcome = "error"
    /\ lastDone.calls[Len(lastDone.calls)] = "eth_gasPrice"
    /\ cachedData.lastUpdate > 0
    /\ cachedData.lastUpdate < now

(* C29: in every state the cache is either unpopulated (block null,        *)
(* lastUpdate 0, both histories empty), which it is as long as no cycle    *)
(* has committed, or populated (none of the four).                         *)
C29_PopulationCoherence ==
    LET unset == <<cachedData.block = Null,
                   cachedData.lastUpdate = 0,
                   cachedData.blockHistory = <<>>,
                   cachedData.gasPriceHistory = <<>> >>
    IN  /\ \A i, j \in 1..4 : unset[i] = unset[j]
        /\ unset[1] = ~lastCommit.committed

\* the first commit has just happened: block, lastUpdate and both histories
\* are set
C29_Witness ==
    /\ Committed
    /\ cachedData.block # Null
    /\ cachedData.lastUpdate > 0
    /\ Len(cachedData.blockHistory) = 1
    /\ Len(cachedData.gasPriceHistory) = 1

\* the position of hash in the list hashes
PositionIn(hashes, hash) == CHOOSE p \in 1..Len(hashes) : hashes[p] = hash

(* C30: the cached transactions are transactions of the cached block: each *)
(* hash is among the first 15 hashes that the block lists, and the cached  *)
(* transactions come in the order in which the block lists them.  Without  *)
(* a cached block there are no cached transactions.                        *)
C30_TransactionsOfTheBlock ==
    IF cachedData.block = Null THEN cachedData.transactions = <<>>
    ELSE LET listed == Slice(cachedData.block.value.transactions, 15)
             cached == [i \in 1..Len(cachedData.transactions) |->
                           cachedData.transactions[i].hash]
         IN  /\ \A i \in 1..Len(cached) : \E p \in 1..Len(listed) : listed[p] = cached[i]
             /\ \A i, j \in 1..Len(cached) :
                    i < j => PositionIn(listed, cached[i]) < PositionIn(listed, cached[j])

\* the cache holds a block that lists 16 transactions and 14 of them: the
\* second to the fifteenth, the lookup of the first having failed
C30_Witness ==
    /\ cachedData.block # Null
    /\ Len(cachedData.block.value.transactions) = 16
    /\ Len(cachedData.transactions) = 14
    /\ cachedData.transactions[1].hash = cachedData.block.value.transactions[2]
    /\ cachedData.transactions[14].hash = cachedData.block.value.transactions[15]

====
